---------------------------- MODULE Spec2Model ----------------------------
(***************************************************************************)
(* bzComplexityAnalyzer: the Analyzer of bzComplexityAnalysis.py.          *)
(*                                                                         *)
(* A Python str is a sequence of one-character strings.  A float that the  *)
(* program computes is kept exactly: a mean is a fraction [num, den] in    *)
(* lowest terms, a standard deviation is kept as the fraction under its    *)
(* square root (its radicand), and a z-score is kept as its sign and its   *)
(* square.  The process-global generator of the random module is one       *)
(* variable, rng; bz2 and random are libraries, modelled by deterministic  *)
(* functions (BzCompressedLength, RandomSeed, RandomNext).                 *)
(***************************************************************************)
EXTENDS Integers, Sequences, FiniteSets, TLC

VARIABLES
    analyzers,  \* the Analyzer objects in existence, by identity
    rng,        \* the state of the generator of the random module
    ret,        \* the latest call: its arguments and what it returned or raised
    queried,    \* per Analyzer, the lengths of the strings scored so far
    threads,    \* the threads inside a scoring call, and where each stands
    sched       \* the thread that ran last, and the preemptions so far

vars == << analyzers, rng, ret, queried, threads, sched >>

-----------------------------------------------------------------------------
(* Characters and strings *)

Ascii ==
    << " ", "!", "\"", "#", "$", "%", "&", "'", "(", ")", "*", "+", ",", "-", ".", "/",
       "0", "1", "2", "3", "4", "5", "6", "7", "8", "9", ":", ";", "<", "=", ">", "?",
       "@", "A", "B", "C", "D", "E", "F", "G", "H", "I", "J", "K", "L", "M", "N", "O",
       "P", "Q", "R", "S", "T", "U", "V", "W", "X", "Y", "Z", "[", "\\", "]", "^", "_",
       "GRAVE", "a", "b", "c", "d", "e", "f", "g", "h", "i", "j", "k", "l", "m", "n", "o",
       "p", "q", "r", "s", "t", "u", "v", "w", "x", "y", "z", "{", "|", "}", "~" >>

\* ord(c): the byte str.encode gives an ASCII character.  The grave accent
\* (byte 96) is written "GRAVE".
OrdTable ==
    [c \in {Ascii[i] : i \in 1..Len(Ascii)} |->
        31 + (CHOOSE i \in 1..Len(Ascii) : Ascii[i] = c)]

Ord(c) == OrdTable[c]

Chr(n) == Ascii[n - 31]

UpperChar(c) == IF Ord(c) >= 97 /\ Ord(c) <= 122 THEN Chr(Ord(c) - 32) ELSE c

LowerChar(c) == IF Ord(c) >= 65 /\ Ord(c) <= 90 THEN Chr(Ord(c) + 32) ELSE c

\* str.upper() and str.lower()
Upper(str) == [i \in 1..Len(str) |-> UpperChar(str[i])]

Lower(str) == [i \in 1..Len(str) |-> LowerChar(str[i])]

\* letter * length
Repeat(letter, length) == [i \in 1..length |-> letter]

-----------------------------------------------------------------------------
(* class Alphabet *)

dna(ignoreCase) ==
    << "A", "T", "G", "C" >> \o
    (IF ~ignoreCase THEN << "a", "t", "g", "c" >> ELSE << >>)

alpha(ignoreCase) ==
    << "A", "B", "C", "D", "E", "F", "G", "H", "I", "J", "K", "L", "M",
       "N", "O", "P", "Q", "R", "S", "T", "U", "V", "W", "X", "Y", "Z" >> \o
    (IF ~ignoreCase
       THEN << "a", "b", "c", "d", "e", "f", "g", "h", "i", "j", "k", "l", "m",
               "n", "o", "p", "q", "r", "s", "t", "u", "v", "w", "x", "y", "z" >>
       ELSE << >>)

numeric == << "1", "2", "3", "4", "5", "6", "7", "8", "9", "0" >>

symbol ==
    << "~", "!", "@", "#", "$", "%", "^", "&", "*", "(", ")", "_", "+", "{", "}", "|", ":",
       "\"", "<", ">", "?", "GRAVE", "-", "=", "[", "]", "\\", ";", "'", ",", ".", "/", " " >>

alphanumeric(ignoreCase) == alpha(ignoreCase) \o numeric

alphanumericSymbol(ignoreCase) == alpha(ignoreCase) \o numeric \o symbol

-----------------------------------------------------------------------------
(* Analyzer.__init__ *)

\* A Python value passed as an argument: its type, its characters or items
\* (str, list, set, tuple) and its number (int, float, bool).
PyStr(chars)   == [type |-> "str",   items |-> chars, num |-> 0]
PyList(items)  == [type |-> "list",  items |-> items, num |-> 0]
PySet(items)   == [type |-> "set",   items |-> items, num |-> 0]
PyTuple(items) == [type |-> "tuple", items |-> items, num |-> 0]
PyInt(n)       == [type |-> "int",   items |-> << >>, num |-> n]
PyFloat(n)     == [type |-> "float", items |-> << >>, num |-> n]
PyBool(n)      == [type |-> "bool",  items |-> << >>, num |-> n]
PyNone         == [type |-> "NoneType", items |-> << >>, num |-> 0]

\* bool(x), as `assert alphabet` takes it
Truthy(x) ==
    IF x.type \in {"str", "list", "set", "tuple"} THEN Len(x.items) > 0
    ELSE IF x.type \in {"int", "float", "bool"} THEN x.num # 0
    ELSE FALSE

NoObject ==
    [alphabet |-> << >>, ignoreCase |-> FALSE, iterations |-> 0, baselines |-> << >>]

Raise(kind, message) == [raised |-> kind, message |-> message, obj |-> NoObject]

\* The chain of comparisons of the alphabet dispatch; << >> stands for the
\* else branch that raises ValueError.
CatalogByName(n, ignoreCase) ==
    IF n = << "d", "n", "a" >> THEN dna(ignoreCase)
    ELSE IF n = << "a", "l", "p", "h", "a" >> THEN alpha(ignoreCase)
    ELSE IF n = << "n", "u", "m", "e", "r", "i", "c" >> THEN numeric
    ELSE IF n = << "s", "y", "m", "b", "o", "l" >> THEN symbol
    ELSE IF n = << "a", "l", "p", "h", "a", "n", "u", "m", "e", "r", "i", "c" >>
         THEN alphanumeric(ignoreCase)
    ELSE IF n \in { << "a", "l", "p", "h", "a", "n", "u", "m", "e", "r", "i", "c",
                       "s", "y", "m", "b", "o", "l" >>,
                    << "k", "e", "y", "b", "o", "a", "r", "d" >> }
         THEN alphanumericSymbol(ignoreCase)
    ELSE << >>

\* A slip: the name is compared as given, without `alphabet.lower()`.
NamedAlphabetAsGiven(name, ignoreCase) == CatalogByName(name, ignoreCase)

\* `alphabet = alphabet.lower()`, then the chain.
NamedAlphabet(name, ignoreCase) == CatalogByName(Lower(name), ignoreCase)

\* The alphabet dispatch: `if type(alphabet) in (list, set, tuple)` and on.
AlphabetDispatch(alphabet, ignoreCase, iterations) ==
    LET made(symbols) ==
            [raised |-> "", message |-> "",
             obj |-> [alphabet |-> symbols, ignoreCase |-> ignoreCase,
                      iterations |-> iterations.num, baselines |-> << >>]]
    IN  IF alphabet.type \in {"list", "set", "tuple"} THEN made(alphabet.items)
        ELSE IF alphabet.type = "str"
             THEN IF NamedAlphabet(alphabet.items, ignoreCase) = << >>
                    THEN Raise("ValueError",
                               "Alphabet cannot be a string unless naming a pre-defined set.  Passed value: %s.  If defining a custom alphabet space, please pass it as a list.")
                    ELSE made(NamedAlphabet(alphabet.items, ignoreCase))
        ELSE Raise("ValueError", "Alphabet must be a string, tuple, set, or a string naming a pre-defined set of characters")

\* A slip: the floor of ten iterations is not enforced.
NewAnalyzerNoFloor(alphabet, ignoreCase, iterations) ==
    IF ~(iterations.type = "int" /\ iterations.num > 0)
      THEN Raise("AssertionError", "Iterations must be a positive integer.")
    ELSE IF ~Truthy(alphabet)
      THEN Raise("AssertionError", "Alphabet cannot be an empty space (no empty lists, sets, tuples or strings allowed)")
    ELSE AlphabetDispatch(alphabet, ignoreCase, iterations)

\* Analyzer(alphabet, ignoreCase, iterations): the exception raised, or the
\* object constructed.
NewAnalyzer(alphabet, ignoreCase, iterations) ==
    IF ~(iterations.type = "int" /\ iterations.num > 0)
      THEN Raise("AssertionError", "Iterations must be a positive integer.")
    ELSE IF ~Truthy(alphabet)
      THEN Raise("AssertionError", "Alphabet cannot be an empty space (no empty lists, sets, tuples or strings allowed)")
    ELSE IF iterations.num < 10
      THEN Raise("Warning", "Iteration count should be at least 10 (and probably 100 or more) to be reliable and generate values that reproduce well")
    ELSE AlphabetDispatch(alphabet, ignoreCase, iterations)

-----------------------------------------------------------------------------
(* Bounds and inputs *)

\* The longest proband string.
MaxLen == 2

\* The proband strings: the empty string and, of every length up to MaxLen,
\* "AA..A" and "AA..t".  Over two symbols these take every compressed length
\* a string of that length has.
Probands ==
    { << >> } \cup {Repeat("A", n) : n \in 1..MaxLen}
              \cup {[Repeat("A", n) EXCEPT ![n] = "t"] : n \in 1..MaxLen}

\* The constructor's arguments.
AlphabetArgs ==
    { PyStr(<< "d", "n", "a" >>), PyStr(<< "D", "n", "A" >>),
      PyStr(<< "a", "l", "p", "h", "a" >>),
      PyStr(<< "n", "u", "m", "e", "r", "i", "c" >>),
      PyStr(<< "s", "y", "m", "b", "o", "l" >>),
      PyStr(<< "a", "l", "p", "h", "a", "n", "u", "m", "e", "r", "i", "c" >>),
      PyStr(<< "a", "l", "p", "h", "a", "n", "u", "m", "e", "r", "i", "c",
               "S", "y", "m", "b", "o", "l" >>),
      PyStr(<< "K", "e", "y", "b", "o", "a", "r", "d" >>),
      PyStr(<< "r", "n", "a" >>), PyStr(<< "A", "T" >>), PyStr(<< >>),
      PyList(<< >>), PyList(<< "A" >>), PyTuple(<< "a", "T" >>), PyTuple(<< >>),
      PySet(<< >>), PySet(<< "7" >>),
      PyInt(0), PyInt(5), PyNone }

IterationArgs ==
    { PyInt(-1), PyInt(0), PyInt(1), PyInt(9), PyInt(10), PyInt(11),
      PyFloat(10), PyBool(1), PyNone }

\* The configurations the scoring runs use.
ScoringArgs ==
    { << PyStr(<< "d", "n", "a" >>), TRUE, PyInt(10) >>,
      << PyStr(<< "D", "N", "A" >>), FALSE, PyInt(10) >>,
      << PyList(<< "A" >>), TRUE, PyInt(11) >>,
      << PyTuple(<< "a", "T" >>), FALSE, PyInt(10) >> }

-----------------------------------------------------------------------------
(* Exact arithmetic for the floats of the program *)

RECURSIVE Gcd(_, _)
Gcd(a, b) == IF b = 0 THEN a ELSE Gcd(b, a % b)

Abs(n) == IF n < 0 THEN -n ELSE n

\* The fraction n/d (d # 0) in lowest terms with a positive denominator.
Frac(n, d) ==
    LET g == Gcd(Abs(n), Abs(d))
        s == IF d < 0 THEN -1 ELSE 1
    IN  [num |-> (s * n) \div g, den |-> (s * d) \div g]

FracAdd(x, y) == Frac(x.num * y.den + y.num * x.den, x.den * y.den)

FracSub(x, y) == Frac(x.num * y.den - y.num * x.den, x.den * y.den)

FracMul(x, y) == Frac(x.num * y.num, x.den * y.den)

FracDiv(x, y) == Frac(x.num * y.den, x.den * y.num)

FracSign(x) == IF x.num > 0 THEN 1 ELSE IF x.num < 0 THEN -1 ELSE 0

\* xs[lo] + ... + xs[hi], by halves
RECURSIVE FracSumRange(_, _, _)
FracSumRange(xs, lo, hi) ==
    IF lo > hi THEN Frac(0, 1)
    ELSE IF lo = hi THEN xs[lo]
    ELSE LET mid == (lo + hi) \div 2
         IN  FracAdd(FracSumRange(xs, lo, mid), FracSumRange(xs, mid + 1, hi))

FracSum(xs) == FracSumRange(xs, 1, Len(xs))

\* statistics.mean(data)
Mean(data) == FracDiv(FracSum(data), Frac(Len(data), 1))

\* statistics.stdev(data), as the fraction under the square root: the sum of
\* the squared deviations from the mean over n - 1.
Stdev(data) ==
    LET m == Mean(data)
        sq == [i \in 1..Len(data) |-> FracMul(FracSub(data[i], m), FracSub(data[i], m))]
    IN  FracDiv(FracSum(sq), Frac(Len(data) - 1, 1))

-----------------------------------------------------------------------------
(* The libraries: bz2 and random *)

\* len(bz2.compress(bytes)).  bz2 writes 14 bytes for the empty input and 37
\* bytes for a block of one symbol; each further group of sixteen byte values
\* in use costs two bytes of symbol map, and a third distinct symbol one more
\* byte.  This is bz2's output length on every input of up to three ASCII
\* bytes; on longer inputs it stands for it.
BzCompressedLength(bytes) ==
    IF bytes = << >> THEN 14
    ELSE LET used == {bytes[i] : i \in 1..Len(bytes)}
             groups == {Ord(c) \div 16 : c \in used}
         IN  37 + 2 * (Cardinality(groups) - 1)
                + (IF Cardinality(used) >= 3 THEN 1 ELSE 0)

\* The states of the generator of the random module.
RngStates == 1..30

\* random.seed(length): the state depends on the seed alone.
RandomSeed(length) == ((7 * length) % 30) + 1

\* One step of the generator.
RandomNext(state) == (3 * state) % 31

\* The generator after k steps.
RECURSIVE RngAfter(_, _)
RngAfter(state, k) == IF k = 0 THEN state ELSE RandomNext(RngAfter(state, k - 1))

\* random.choice(seq): the generator steps, and its new state picks the item.
RandomChoice(state, seq) ==
    [rng |-> RandomNext(state), item |-> seq[(RandomNext(state) % Len(seq)) + 1]]

-----------------------------------------------------------------------------
(* class SequenceCompressionData *)

\* A returned number, or the exception raised instead of it.  A z-score
\* x / sqrt(r) is kept as the sign of x and the fraction x*x / r.
Number(sign, square) == [raised |-> "", sign |-> sign, square |-> square]

Raised(kind) == [raised |-> kind, sign |-> 0, square |-> Frac(0, 1)]

\* deviation / sqrt(radicand); Python raises ZeroDivisionError on x / 0.0
Quotient(deviation, radicand) ==
    Number(FracSign(deviation), FracDiv(FracMul(deviation, deviation), radicand))

\* statistics.NormalDist(mu, sigma)
NormalDist(mu, sigma) == [mu |-> mu, sigma |-> sigma]

\* NormalDist.cdf(x): raises StatisticsError when sigma is zero; otherwise a
\* strictly increasing function, Phi, of (x - mu) / sigma, kept by its argument.
NormalCdf(dist, x) ==
    IF dist.sigma.num = 0 THEN Raised("StatisticsError")
    ELSE Quotient(FracSub(x, dist.mu), dist.sigma)

\* The dataclass with its __post_init__
SequenceCompressionData(length, averageMinimumCompressedLength, average, standardDeviation) ==
    [length |-> length,
     averageMinimumCompressedLength |-> averageMinimumCompressedLength,
     average |-> average,
     standardDeviation |-> standardDeviation,
     distribution |-> NormalDist(average, standardDeviation)]

compressionZScore(self, probandCompressionLength) ==
    LET adjustedCompressedLength ==
            FracSub(Frac(probandCompressionLength, 1), self.averageMinimumCompressedLength)
        deviationFromAverage == FracSub(adjustedCompressedLength, self.average)
    IN  IF self.standardDeviation.num = 0 THEN Raised("ZeroDivisionError")
        ELSE Quotient(deviationFromAverage, self.standardDeviation)

compressionPercentile(self, probandCompressionLength) ==
    LET adjustedCompressedLength ==
            FracSub(Frac(probandCompressionLength, 1), self.averageMinimumCompressedLength)
    IN  NormalCdf(self.distribution, adjustedCompressedLength)

-----------------------------------------------------------------------------
(* class Analyzer: the baseline builder *)

getBzipByteLength(self, stringToCompress) ==
    BzCompressedLength(IF self.ignoreCase THEN Upper(stringToCompress)
                                          ELSE stringToCompress)

getAverageMinimumCompressedLength(self, length) ==
    Mean([i \in 1..Len(self.alphabet) |->
            Frac(getBzipByteLength(self, Repeat(self.alphabet[i], length)), 1)])

\* "".join([random.choice(self.alphabet) for j in range(length)]) from the
\* generator state `state`: the string and the state the generator is left in.
\* The j-th character comes from the j-th step of the generator.
RandomSequence(state, alphabet, length) ==
    [rng |-> RngAfter(state, length),
     str |-> [j \in 1..length |-> RandomChoice(RngAfter(state, j - 1), alphabet).item]]

\* The loop `for i in range(iterations)`: randomStringCompressedLengths.  The
\* i-th string starts where the (i-1)-th left the generator.
RandomStringCompressedLengths(self, state, length, averageMinimumCompressedLength, iterations) ==
    [rng |-> RngAfter(state, iterations * length),
     lengths |->
        [i \in 1..iterations |->
            FracSub(Frac(getBzipByteLength(self,
                            RandomSequence(RngAfter(state, (i - 1) * length),
                                           self.alphabet, length).str), 1),
                    averageMinimumCompressedLength)]]

\* An argument left at its default None; `if not iterations` also takes 0.
NoneFrac == [num |-> 0, den |-> 0]

\* The body of the noise distribution: n strings drawn from the generator as
\* it stands, their adjusted compressed lengths, the mean and the deviation.
NoiseDistribution(self, state, length, floor, n) ==
    LET drawn == RandomStringCompressedLengths(self, state, length, floor, n)
    IN  IF n < 2
          THEN [raised |-> "StatisticsError", rng |-> drawn.rng, samples |-> n,
                mean |-> Frac(0, 1), stdev |-> Frac(0, 1)]
          ELSE [raised |-> "", rng |-> drawn.rng, samples |-> n,
                mean |-> Mean(drawn.lengths), stdev |-> Stdev(drawn.lengths)]

\* NoiseDistribution for the scoring configurations, every generator state
\* and every length, with the default floor and sample count: a constant,
\* which TLC evaluates once (@@ makes it an explicit table).
ScoringObjects == {NewAnalyzer(args[1], args[2], args[3]).obj : args \in ScoringArgs}

NoiseTable ==
    [key \in ScoringObjects \X RngStates \X (0..MaxLen) |->
        NoiseDistribution(key[1], key[2], key[3],
                          getAverageMinimumCompressedLength(key[1], key[3]),
                          key[1].iterations)] @@ << >>

\* The noise distribution; it does not seed: it draws from the generator as
\* it stands.
getAverageRandomCompressedLengthAndStandardDeviation(self, state, length, averageMinimumCompressedLength, iterations) ==
    LET n == IF iterations = 0 THEN self.iterations ELSE iterations
        floor == IF averageMinimumCompressedLength = NoneFrac
                   THEN getAverageMinimumCompressedLength(self, length)
                   ELSE averageMinimumCompressedLength
        key == << [self EXCEPT !.baselines = << >>], state, length >>
    IN  IF /\ key \in DOMAIN NoiseTable
           /\ n = self.iterations
           /\ floor = getAverageMinimumCompressedLength(self, length)
          THEN NoiseTable[key]
          ELSE NoiseDistribution(self, state, length, floor, n)

\* A slip: the assignment replaces the dict.
SetItemAlone(dict, key, value) == (key :> value)

\* self.baselines[length] = compressionDataObject
SetItem(dict, key, value) == (key :> value) @@ dict

\* addLengthToBaselineTable after its first line: the floor, the noise
\* distribution drawn from the generator state `start`, the record, its
\* storing, and the three statistics returned.
BuildBaseline(self, start, length) ==
    LET averageMinimumCompressedLength == getAverageMinimumCompressedLength(self, length)
        noise == getAverageRandomCompressedLengthAndStandardDeviation(
                     self, start, length, averageMinimumCompressedLength, 0)
        compressionDataObject ==
            SequenceCompressionData(length, averageMinimumCompressedLength,
                                    noise.mean, noise.stdev)
    IN  [self |-> [self EXCEPT !.baselines = SetItem(@, length, compressionDataObject)],
         rng |-> noise.rng,
         samples |-> noise.samples,
         result |-> << averageMinimumCompressedLength, noise.mean, noise.stdev >>]

\* A slip: no `random.seed(length)`; the draws start where the generator stands.
addLengthUnseeded(self, state, length) == BuildBaseline(self, state, length)

\* `random.seed(length)`, then the build.
addLengthToBaselineTable(self, state, length) ==
    BuildBaseline(self, RandomSeed(length), length)

-----------------------------------------------------------------------------
(* class Analyzer: scoring *)

\* A slip: a length already cached is built again, from the generator as it
\* stands.
EnsureBaselineRefreshing(self, state, length) ==
    IF length \notin DOMAIN self.baselines
      THEN [built |-> TRUE] @@ addLengthToBaselineTable(self, state, length)
      ELSE [built |-> FALSE] @@ BuildBaseline(self, state, length)

\* `if not length in self.baselines: self.addLengthToBaselineTable(length)`
EnsureBaseline(self, state, length) ==
    IF length \notin DOMAIN self.baselines
      THEN [built |-> TRUE] @@ addLengthToBaselineTable(self, state, length)
      ELSE [built |-> FALSE, self |-> self, rng |-> state, samples |-> 0]

getCompressionPercentile(self, state, probandString) ==
    LET length == Len(probandString)
        after == EnsureBaseline(self, state, length)
    IN  [self |-> after.self, rng |-> after.rng, built |-> after.built,
         samples |-> after.samples,
         out |-> compressionPercentile(after.self.baselines[length],
                                       getBzipByteLength(self, probandString))]

getCompressionZScore(self, state, probandString) ==
    LET length == Len(probandString)
        after == EnsureBaseline(self, state, length)
    IN  [self |-> after.self, rng |-> after.rng, built |-> after.built,
         samples |-> after.samples,
         out |-> compressionZScore(after.self.baselines[length],
                                   getBzipByteLength(self, probandString))]

-----------------------------------------------------------------------------
(* Operations *)

NoCall == [op |-> "none"]

\* No thread has run.
NoThread == [running |-> 0, preemptions |-> 0]

CallOps == {"getCompressionZScore", "getCompressionPercentile"}

\* x = Analyzer(alphabet, ignoreCase, iterations): object a exists afterwards
\* only if the constructor returned.
Construct(a, alphabet, ignoreCase, iterations) ==
    /\ a \notin DOMAIN analyzers
    /\ \E r \in {NewAnalyzer(alphabet, ignoreCase, iterations)} :
          /\ analyzers' = IF r.raised = "" THEN SetItem(analyzers, a, r.obj) ELSE analyzers
          /\ queried' = IF r.raised = "" THEN SetItem(queried, a, {}) ELSE queried
          /\ ret' = [op |-> "Analyzer", a |-> a, alphabet |-> alphabet,
                     ignoreCase |-> ignoreCase, iterations |-> iterations,
                     raised |-> r.raised, message |-> r.message]
    /\ UNCHANGED << rng, threads, sched >>

\* analyzers[a].getCompressionZScore(probandString).  What the call did to the
\* cache and to the generator stays done when the scoring raises.
ZScore(a, probandString) ==
    /\ a \in DOMAIN analyzers
    /\ \E r \in {getCompressionZScore(analyzers[a], rng, probandString)} :
          /\ analyzers' = [analyzers EXCEPT ![a] = r.self]
          /\ rng' = r.rng
          /\ ret' = [op |-> "getCompressionZScore", a |-> a, arg |-> probandString,
                     built |-> r.built, samples |-> r.samples, out |-> r.out]
    /\ queried' = [queried EXCEPT ![a] = @ \cup {Len(probandString)}]
    /\ UNCHANGED << threads, sched >>

\* analyzers[a].getCompressionPercentile(probandString)
Percentile(a, probandString) ==
    /\ a \in DOMAIN analyzers
    /\ \E r \in {getCompressionPercentile(analyzers[a], rng, probandString)} :
          /\ analyzers' = [analyzers EXCEPT ![a] = r.self]
          /\ rng' = r.rng
          /\ ret' = [op |-> "getCompressionPercentile", a |-> a, arg |-> probandString,
                     built |-> r.built, samples |-> r.samples, out |-> r.out]
    /\ queried' = [queried EXCEPT ![a] = @ \cup {Len(probandString)}]
    /\ UNCHANGED << threads, sched >>

\* A direct call analyzers[a].getAverageRandomCompressedLengthAndStandardDeviation(length)
DirectNoise(a, length) ==
    /\ a \in DOMAIN analyzers
    /\ \E r \in {getAverageRandomCompressedLengthAndStandardDeviation(
                    analyzers[a], rng, length, NoneFrac, 0)} :
          /\ rng' = r.rng
          /\ ret' = [op |-> "getAverageRandomCompressedLengthAndStandardDeviation",
                     a |-> a, length |-> length, state |-> rng,
                     result |-> << r.mean, r.stdev >>]
    /\ UNCHANGED << analyzers, queried, threads, sched >>

\* A direct call analyzers[a].addLengthToBaselineTable(length)
DirectAdd(a, length) ==
    /\ a \in DOMAIN analyzers
    /\ \E r \in {addLengthToBaselineTable(analyzers[a], rng, length)} :
          /\ analyzers' = [analyzers EXCEPT ![a] = r.self]
          /\ rng' = r.rng
          /\ ret' = [op |-> "addLengthToBaselineTable", a |-> a, length |-> length,
                     state |-> rng, result |-> r.result]
    /\ UNCHANGED << queried, threads, sched >>

-----------------------------------------------------------------------------
(* Specifications *)

\* The Analyzers `ids`, constructed with one configuration; the generator is
\* in any state when the first call comes.
InitWith(ids) ==
    /\ \E args \in ScoringArgs :
          analyzers = [a \in ids |-> NewAnalyzer(args[1], args[2], args[3]).obj]
    /\ rng \in RngStates
    /\ ret = NoCall
    /\ queried = [a \in ids |-> {}]
    /\ threads = << >>
    /\ sched = NoThread

Scoring ==
    \E a \in DOMAIN analyzers, probandString \in Probands :
        \/ ZScore(a, probandString)
        \/ Percentile(a, probandString)

\* One Analyzer, scored in any order.
Init == InitWith({1})

Next == Scoring

Spec == Init /\ [][Next]_vars

\* Two Analyzers of one configuration in one process, scored in any order.
InitPair == InitWith({1, 2})

SpecPair == InitPair /\ [][Next]_vars

\* One Analyzer with direct calls of the builder's operations as well.
NextDirect ==
    \/ Scoring
    \/ \E a \in DOMAIN analyzers, length \in 0..MaxLen :
          \/ DirectNoise(a, length)
          \/ DirectAdd(a, length)

SpecDirect == Init /\ [][NextDirect]_vars

\* One Analyzer from its construction on.  The constructor does not touch
\* the generator.
InitConstruct ==
    /\ analyzers = << >>
    /\ rng = RandomSeed(0)
    /\ ret = NoCall
    /\ queried = << >>
    /\ threads = << >>
    /\ sched = NoThread

NextConstruct ==
    \/ \E alphabet \in AlphabetArgs, ignoreCase \in BOOLEAN, iterations \in IterationArgs :
          Construct(1, alphabet, ignoreCase, iterations)
    \/ \E probandString \in Probands : ZScore(1, probandString)

SpecConstruct == InitConstruct /\ [][NextConstruct]_vars

-----------------------------------------------------------------------------
(* Two threads inside getCompressionZScore, no lock *)

ThreadIds == {1, 2}

\* The scheduler is followed up to this many preemptions of a thread that
\* has not finished its call.
MaxPreemptions == 1

\* The configurations the threads run under: a catalog and a collection.
ThreadArgs ==
    { << PyStr(<< "d", "n", "a" >>), TRUE, PyInt(10) >>,
      << PyTuple(<< "a", "T" >>), FALSE, PyInt(10) >> }

\* The strings the threads score: one of each length from 1 on.
ThreadProbands == {[Repeat("A", n) EXCEPT ![n] = "t"] : n \in 1..MaxLen}

NoRecord == SequenceCompressionData(0, NoneFrac, NoneFrac, NoneFrac)

\* A thread before its call.  `disturbed` remembers whether another thread
\* seeded or drew between this thread's random.seed and its last draw.
IdleThread ==
    [pc |-> "idle", a |-> 0, arg |-> << >>, floor |-> NoneFrac, cur |-> << >>,
     lengths |-> << >>, built |-> FALSE, disturbed |-> FALSE,
     record |-> NoRecord, out |-> Raised("")]

\* Does a step of t preempt the thread that ran last?
Preempts(t) ==
    IF sched.running \in {0, t} THEN FALSE ELSE threads[sched.running].pc # "done"

MayRun(t) == Preempts(t) => sched.preemptions < MaxPreemptions

Running(t) ==
    [running |-> t,
     preemptions |->
        IF Preempts(t) THEN sched.preemptions + 1 ELSE sched.preemptions]

\* The threads after a step of t that used the generator: every other
\* thread between its seed and its last draw has been disturbed.
UsingGenerator(t, new) ==
    [u \in ThreadIds |->
        IF u = t THEN new
        ELSE IF threads[u].pc = "draw" THEN [threads[u] EXCEPT !.disturbed = TRUE]
        ELSE threads[u]]

\* randomStringCompressedLengths.append(x); the list is kept in ascending
\* order, on which neither statistics.mean nor statistics.stdev depends.
AppendLength(lengths, x) ==
    LET k == Cardinality({i \in 1..Len(lengths) : lengths[i] <= x})
    IN  SubSeq(lengths, 1, k) \o << x >> \o SubSeq(lengths, k + 1, Len(lengths))

\* Thread t enters analyzers[a].getCompressionZScore(probandString).
ThreadCall(t, a, probandString) ==
    /\ threads[t].pc = "idle"
    /\ MayRun(t)
    /\ threads' = [threads EXCEPT ![t] = [@ EXCEPT !.pc = "check", !.a = a,
                                                   !.arg = probandString]]
    /\ sched' = Running(t)
    /\ UNCHANGED << analyzers, rng, ret, queried >>

\* `if not length in self.baselines`
ThreadCheck(t) ==
    /\ threads[t].pc = "check"
    /\ MayRun(t)
    /\ threads' = [threads EXCEPT ![t].pc =
                      IF Len(threads[t].arg) \in DOMAIN analyzers[threads[t].a].baselines
                        THEN "score" ELSE "seed"]
    /\ queried' = [queried EXCEPT ![threads[t].a] = @ \cup {Len(threads[t].arg)}]
    /\ sched' = Running(t)
    /\ UNCHANGED << analyzers, rng, ret >>

\* A slip: the build starts without `random.seed(length)`.
ThreadSeedSkipped(t) ==
    /\ threads[t].pc = "seed"
    /\ MayRun(t)
    /\ threads' = [threads EXCEPT ![t] =
                      [@ EXCEPT !.pc = "draw", !.built = TRUE,
                                !.floor = getAverageMinimumCompressedLength(
                                              analyzers[threads[t].a], Len(threads[t].arg))]]
    /\ sched' = Running(t)
    /\ UNCHANGED << analyzers, rng, ret, queried >>

\* addLengthToBaselineTable up to the loop: `random.seed(length)` and the
\* floor, which reads nothing another thread writes.
ThreadSeed(t) ==
    /\ threads[t].pc = "seed"
    /\ MayRun(t)
    /\ rng' = RandomSeed(Len(threads[t].arg))
    /\ threads' = UsingGenerator(t,
                      [threads[t] EXCEPT !.pc = "draw", !.built = TRUE,
                                !.floor = getAverageMinimumCompressedLength(
                                              analyzers[threads[t].a], Len(threads[t].arg))])
    /\ sched' = Running(t)
    /\ UNCHANGED << analyzers, ret, queried >>

\* One `random.choice(self.alphabet)`; the string that it completes is
\* compressed and its length appended.
ThreadDraw(t) ==
    /\ threads[t].pc = "draw"
    /\ MayRun(t)
    /\ LET self == analyzers[threads[t].a]
           drawn == RandomChoice(rng, self.alphabet)
           randomSequence == Append(threads[t].cur, drawn.item)
           complete == Len(randomSequence) = Len(threads[t].arg)
           lengths == IF complete
                        THEN AppendLength(threads[t].lengths,
                                          getBzipByteLength(self, randomSequence))
                        ELSE threads[t].lengths
       IN  /\ rng' = drawn.rng
           /\ threads' = UsingGenerator(t,
                  [threads[t] EXCEPT
                      !.cur = IF complete THEN << >> ELSE randomSequence,
                      !.lengths = lengths,
                      !.pc = IF complete /\ Len(lengths) = self.iterations
                               THEN "store" ELSE "draw"])
    /\ sched' = Running(t)
    /\ UNCHANGED << analyzers, ret, queried >>

\* The mean and the deviation, the record, and
\* `self.baselines[length] = compressionDataObject`
ThreadStore(t) ==
    /\ threads[t].pc = "store"
    /\ MayRun(t)
    /\ LET length == Len(threads[t].arg)
           data == [i \in 1..Len(threads[t].lengths) |->
                       FracSub(Frac(threads[t].lengths[i], 1), threads[t].floor)]
       IN  \E compressionDataObject \in
                 {SequenceCompressionData(length, threads[t].floor,
                                          Mean(data), Stdev(data))} :
              /\ analyzers' = [analyzers EXCEPT ![threads[t].a].baselines =
                                  SetItem(@, length, compressionDataObject)]
              /\ threads' = [threads EXCEPT ![t] =
                                [@ EXCEPT !.pc = "score",
                                          !.record = compressionDataObject]]
    /\ sched' = Running(t)
    /\ UNCHANGED << rng, ret, queried >>

\* `return self.baselines[length].compressionZScore(...)`
ThreadScore(t) ==
    /\ threads[t].pc = "score"
    /\ MayRun(t)
    /\ LET self == analyzers[threads[t].a]
       IN  \E out \in {compressionZScore(self.baselines[Len(threads[t].arg)],
                                         getBzipByteLength(self, threads[t].arg))} :
              /\ threads' = [threads EXCEPT ![t] = [@ EXCEPT !.pc = "done", !.out = out]]
              /\ ret' = [op |-> "getCompressionZScore", a |-> threads[t].a,
                         arg |-> threads[t].arg, built |-> threads[t].built,
                         samples |-> Len(threads[t].lengths), out |-> out]
    /\ sched' = Running(t)
    /\ UNCHANGED << analyzers, rng, queried >>

\* Two Analyzers of one configuration and two threads, each making one call:
\* both on one Analyzer, or each on its own (which of the two Analyzers the
\* first thread calls makes no difference).
InitThreads ==
    /\ \E args \in ThreadArgs :
          analyzers = [a \in {1, 2} |-> NewAnalyzer(args[1], args[2], args[3]).obj]
    /\ rng = RandomSeed(0)
    /\ ret = NoCall
    /\ queried = [a \in {1, 2} |-> {}]
    /\ threads = [t \in ThreadIds |-> IdleThread]
    /\ sched = NoThread

NextThreads ==
    \E t \in ThreadIds :
        \/ \E a \in (IF t = 1 THEN {1} ELSE DOMAIN analyzers),
                 probandString \in ThreadProbands :
              ThreadCall(t, a, probandString)
        \/ ThreadCheck(t)
        \/ ThreadSeed(t)
        \/ ThreadDraw(t)
        \/ ThreadStore(t)
        \/ ThreadScore(t)

SpecThreads == InitThreads /\ [][NextThreads]_vars

-----------------------------------------------------------------------------
(* Properties of the cache and of scoring *)

RecordsOf(a) == {analyzers[a].baselines[L] : L \in DOMAIN analyzers[a].baselines}

\* C1: two Analyzers of one configuration, scored in any order with any
\* other lengths before, cache for a length L >= 1 records with the same
\* averageMinimumCompressedLength, average and standardDeviation.
C1_SameRecords ==
    \A a \in DOMAIN analyzers, b \in DOMAIN analyzers :
        \A L \in DOMAIN analyzers[a].baselines \cap DOMAIN analyzers[b].baselines :
            L >= 1 =>
                LET x == analyzers[a].baselines[L]
                    y == analyzers[b].baselines[L]
                IN  /\ x.averageMinimumCompressedLength = y.averageMinimumCompressedLength
                    /\ x.average = y.average
                    /\ x.standardDeviation = y.standardDeviation

\* Both Analyzers hold a record with spread for the longest length; one of
\* them queried a shorter length as well, the other did not.
C1_Witness ==
    /\ DOMAIN analyzers = {1, 2}
    /\ MaxLen \in DOMAIN analyzers[1].baselines \cap DOMAIN analyzers[2].baselines
    /\ analyzers[1].baselines[MaxLen].standardDeviation.num > 0
    /\ 1 \in DOMAIN analyzers[1].baselines
    /\ 1 \notin DOMAIN analyzers[2].baselines

\* What the call op(s) returns, or raises, on the Analyzer `self` with the
\* generator in `state`.
WouldReturn(self, state, op, s) ==
    IF op = "getCompressionZScore"
      THEN getCompressionZScore(self, state, s).out
      ELSE getCompressionPercentile(self, state, s).out

\* C2: scoring is idempotent: the call just made, made again, returns what it
\* returned (an exception raised counts as the outcome), and no call changes
\* what a call for any string returns.
C2_Idempotent ==
    /\ [](ret.op \in CallOps =>
            WouldReturn(analyzers[ret.a], rng, ret.op, ret.arg) = ret.out)
    /\ [][\A a \in DOMAIN analyzers, op \in CallOps, s \in Probands :
              WouldReturn(analyzers'[a], rng', op, s)
                  = WouldReturn(analyzers[a], rng, op, s)]_vars

\* A number returned from a record already cached, other lengths cached too.
C2_Witness ==
    /\ ret.op \in CallOps
    /\ ~ret.built
    /\ ret.out.raised = ""
    /\ ret.out.sign # 0
    /\ Cardinality(DOMAIN analyzers[ret.a].baselines) > 1

\* C3: the cache holds exactly the lengths queried so far, each under its own
\* length; a call for a cached length leaves the cache and the generator as
\* they are; a call for a new length adds that one entry; no entry is ever
\* changed or removed.
C3_LazyAppendOnly ==
    /\ [](\A a \in DOMAIN analyzers :
            /\ DOMAIN analyzers[a].baselines = queried[a]
            /\ \A L \in DOMAIN analyzers[a].baselines :
                  analyzers[a].baselines[L].length = L)
    /\ [][\A a \in DOMAIN analyzers :
            LET old == analyzers[a].baselines
                new == analyzers'[a].baselines
                called == ret'.op \in CallOps /\ ret'.a = a
            IN  /\ \A L \in DOMAIN old : L \in DOMAIN new /\ new[L] = old[L]
                /\ called /\ Len(ret'.arg) \in DOMAIN old =>
                      new = old /\ rng' = rng /\ ~ret'.built
                /\ called /\ Len(ret'.arg) \notin DOMAIN old =>
                      DOMAIN new = DOMAIN old \cup {Len(ret'.arg)} /\ ret'.built
                /\ ~called => new = old]_vars

\* Every length is cached and the last call was served from the cache.
C3_Witness ==
    /\ ret.op \in CallOps
    /\ ~ret.built
    /\ DOMAIN analyzers[ret.a].baselines = 0..MaxLen

\* C4: every record stored in the cache has standardDeviation > 0.
C4_PositiveDeviation ==
    \A a \in DOMAIN analyzers :
        \A record \in RecordsOf(a) : record.standardDeviation.num > 0

\* C5: a scoring call on a constructed Analyzer returns a number and raises
\* nothing.
C5_NoErrorAtScoring == ret.op \in CallOps => ret.out.raised = ""

\* The compressed lengths a proband can have, with a margin on both sides.
ProbandCompressionLengths == 0..60

\* C8: for every record and every proband compressed length c the z-score is
\* the number ((c - averageMinimumCompressedLength) - average) /
\* standardDeviation, with the sign of the numerator, and the percentile is
\* the cdf of Normal(average, standardDeviation) at
\* c - averageMinimumCompressedLength.
C8_ZScoreFormula ==
    \A a \in DOMAIN analyzers :
        \A record \in RecordsOf(a), c \in ProbandCompressionLengths :
            LET adjusted == FracSub(Frac(c, 1), record.averageMinimumCompressedLength)
                numerator == FracSub(adjusted, record.average)
                z == compressionZScore(record, c)
                p == compressionPercentile(record, c)
            IN  /\ z.raised = ""
                /\ z.sign = FracSign(numerator)
                /\ FracMul(z.square, record.standardDeviation)
                      = FracMul(numerator, numerator)
                /\ p.raised = ""
                /\ p = NormalCdf(NormalDist(record.average, record.standardDeviation),
                                 adjusted)

-----------------------------------------------------------------------------
(* Properties of the constructor *)

\* The names of the catalogs, in lower case.
CatalogNames ==
    { << "d", "n", "a" >>, << "a", "l", "p", "h", "a" >>,
      << "n", "u", "m", "e", "r", "i", "c" >>, << "s", "y", "m", "b", "o", "l" >>,
      << "a", "l", "p", "h", "a", "n", "u", "m", "e", "r", "i", "c" >>,
      << "a", "l", "p", "h", "a", "n", "u", "m", "e", "r", "i", "c",
         "s", "y", "m", "b", "o", "l" >>,
      << "k", "e", "y", "b", "o", "a", "r", "d" >> }

IsCollection(x) == x.type \in {"list", "set", "tuple"}

IsEmptyAlphabet(x) == ~Truthy(x)

NamesCatalog(x) == x.type = "str" /\ Lower(x.items) \in CatalogNames

AcceptedCount(n) == n.type = "int" /\ n.num >= 10

\* C6: a count that is not a positive integer fails the iterations assertion;
\* a count in 1..9 is rejected too; neither leaves an Analyzer; a count >= 10
\* with an acceptable alphabet is accepted and stored as given, never changes,
\* and is the number of samples of every build.
C6_Iterations ==
    /\ [](ret.op = "Analyzer" =>
            LET n == ret.iterations
                positiveInt == n.type = "int" /\ n.num > 0
            IN  /\ ~positiveInt =>
                      /\ ret.raised = "AssertionError"
                      /\ ret.message = "Iterations must be a positive integer."
                      /\ ret.a \notin DOMAIN analyzers
                /\ positiveInt /\ n.num < 10 =>
                      ret.raised # "" /\ ret.a \notin DOMAIN analyzers
                /\ AcceptedCount(n) /\ ~IsEmptyAlphabet(ret.alphabet)
                      /\ (IsCollection(ret.alphabet) \/ NamesCatalog(ret.alphabet)) =>
                      /\ ret.raised = ""
                      /\ ret.a \in DOMAIN analyzers
                      /\ analyzers[ret.a].iterations = n.num)
    /\ [](ret.op \in CallOps /\ ret.built =>
            ret.samples = analyzers[ret.a].iterations)
    /\ [][\A a \in DOMAIN analyzers :
            analyzers'[a].iterations = analyzers[a].iterations]_vars

\* A baseline built from eleven samples by an Analyzer constructed with
\* iterations = 11.
C6_Witness ==
    /\ ret.op \in CallOps
    /\ ret.built
    /\ ret.samples = 11

\* The kind of exception an unrecognised name is answered with.
UnrecognisedNameError ==
    NewAnalyzer(PyStr(<< "r", "n", "a" >>), TRUE, PyInt(10)).raised

\* C7 as stated: with an accepted count, an unrecognised name, an empty
\* alphabet and an alphabet of a wrong type all fail with one and the same
\* kind of error.
C7_OneErrorKind ==
    ret.op = "Analyzer" /\ AcceptedCount(ret.iterations)
        /\ ~(~IsEmptyAlphabet(ret.alphabet)
               /\ (IsCollection(ret.alphabet) \/ NamesCatalog(ret.alphabet))) =>
        ret.raised = UnrecognisedNameError

\* C7: with an accepted count, an empty alphabet fails the alphabet assertion
\* (AssertionError); a non-empty string naming no catalog, or a non-empty
\* value that is neither a string nor a list, set or tuple, fails with
\* ValueError; in every other case the Analyzer's alphabet is the non-empty
\* list of the catalog named (in any case of letters) or the caller's
\* collection.
C7_AlphabetErrors ==
    ret.op = "Analyzer" /\ AcceptedCount(ret.iterations) =>
        LET x == ret.alphabet
        IN  IF IsEmptyAlphabet(x)
              THEN /\ ret.raised = "AssertionError"
                   /\ ret.a \notin DOMAIN analyzers
            ELSE IF IsCollection(x)
              THEN /\ ret.raised = ""
                   /\ analyzers[ret.a].alphabet = x.items
            ELSE IF NamesCatalog(x)
              THEN /\ ret.raised = ""
                   /\ analyzers[ret.a].alphabet
                          = CatalogByName(Lower(x.items), ret.ignoreCase)
                   /\ analyzers[ret.a].alphabet # << >>
            ELSE /\ ret.raised = "ValueError"
                 /\ ret.a \notin DOMAIN analyzers

\* An empty alphabet with an accepted count, answered with AssertionError.
C7_Witness ==
    /\ ret.op = "Analyzer"
    /\ AcceptedCount(ret.iterations)
    /\ ret.alphabet = PyStr(<< >>)
    /\ ret.raised = "AssertionError"

-----------------------------------------------------------------------------
(* Properties of the builder's operations *)

\* C9 as stated: the noise distribution seeds the generator itself, so a
\* direct call returns the same (mean, standard deviation) from every state
\* of the generator.
C9_NoiseSeedsItself ==
    ret.op = "getAverageRandomCompressedLengthAndStandardDeviation" =>
        \A state \in RngStates :
            LET again == getAverageRandomCompressedLengthAndStandardDeviation(
                             analyzers[ret.a], state, ret.length, NoneFrac, 0)
            IN  << again.mean, again.stdev >> = ret.result

\* C9: it is addLengthToBaselineTable that seeds the generator with the
\* length, so it returns the same statistics from every state of the
\* generator; the noise distribution, called directly, draws on from the
\* state the generator is in.
C9_SeedInAddLength ==
    /\ ret.op = "addLengthToBaselineTable" =>
          \A state \in RngStates :
              addLengthToBaselineTable(analyzers[ret.a], state, ret.length).result
                  = ret.result
    /\ ret.op = "getAverageRandomCompressedLengthAndStandardDeviation" =>
          rng = RngAfter(ret.state, analyzers[ret.a].iterations * ret.length)

\* A direct build of the longest length, with spread, from a generator that
\* was not in the seeded state.
C9_Witness ==
    /\ ret.op = "addLengthToBaselineTable"
    /\ ret.length = MaxLen
    /\ ret.state # RandomSeed(ret.length)
    /\ ret.result[3].num > 0

-----------------------------------------------------------------------------
(* Properties of concurrent calls *)

\* The record a call made alone builds for `length`, and what it returns.
SequentialRecord(self, length) ==
    addLengthToBaselineTable(self, rng, length).self.baselines[length]

SequentialScore(self, probandString) ==
    getCompressionZScore([self EXCEPT !.baselines = << >>], rng, probandString).out

AllSequential ==
    /\ \A a \in DOMAIN analyzers :
          \A L \in DOMAIN analyzers[a].baselines :
              analyzers[a].baselines[L] = SequentialRecord(analyzers[a], L)
    /\ \A t \in DOMAIN threads :
          threads[t].pc = "done" =>
              threads[t].out = SequentialScore(analyzers[threads[t].a], threads[t].arg)

\* C10 as stated: under every interleaving of the seeds and the draws of two
\* threads, every record in a cache is the record a sequential run builds
\* and every score returned is the sequential score.
C10_OnlyWasteful == threads # << >> => AllSequential

\* C10: a build is the sequential one when no other thread seeded or drew
\* between its random.seed and its last draw; as long as no build has been
\* so disturbed, every cached record and every score returned is the
\* sequential one, duplicate builds included.
C10_UndisturbedBuild ==
    /\ \A t \in DOMAIN threads :
          threads[t].pc \in {"score", "done"} /\ threads[t].built
              /\ ~threads[t].disturbed =>
              threads[t].record
                  = SequentialRecord(analyzers[threads[t].a], Len(threads[t].arg))
    /\ (\A t \in DOMAIN threads : ~threads[t].disturbed) => AllSequential

\* Both threads built the record of the longest length for one Analyzer,
\* the second after a preemption of the first, neither disturbed.
C10_Witness ==
    /\ DOMAIN threads = ThreadIds
    /\ \A t \in ThreadIds :
          /\ threads[t].pc = "done"
          /\ threads[t].built
          /\ ~threads[t].disturbed
          /\ threads[t].a = 1
          /\ Len(threads[t].arg) = MaxLen
    /\ sched.preemptions > 0
    /\ analyzers[1].baselines[MaxLen].standardDeviation.num > 0

=============================================================================
